---- MODULE Spec2Model ----
(***************************************************************************)
(* The Facebook provider of @uppy/companion                                *)
(* (packages/@uppy/companion/src/server/provider/facebook/index.js).       *)
(*                                                                         *)
(* Every remote call is a request handed to the HTTP client and a callback *)
(* that runs when the client has a response or a transport error.  A call  *)
(* of the provider is therefore a chain of callbacks; the model has one    *)
(* action per provider method (the part that runs synchronously) and one   *)
(* per callback.  The remote side is the environment: it chooses the       *)
(* response or the error each callback receives.                           *)
(*                                                                         *)
(* JavaScript values are records tagged with a "js" field, so that null, *)
(* undefined, strings and objects can be compared with each other.         *)
(***************************************************************************)
EXTENDS Integers, Sequences, FiniteSets, TLC

VARIABLES
    calls,      \* per call slot: the method called and what its closures hold
    net,        \* per call slot: the remote requests in flight
    sent,       \* per call slot: the remote requests issued so far, in order
    signals,    \* per call slot: the invocations of done / onData, in order
    handled,    \* per call slot: the (err, resp) pairs its callbacks received
    stream,     \* per call slot: the binary stream opened by download
    thrown,     \* per call slot: TRUE when a callback ended in an uncaught exception
    errArg,     \* ErrorSpec: the transport error given to _error
    respArg,    \* ErrorSpec: the response given to _error
    errOut,     \* ErrorSpec: what _error returned
    provider,   \* the fields of the Facebook instance (this)
    plugins,    \* LocaleSpec: the plugins build found, in order
    localePack, \* LocaleSpec: the locale pack build fills
    position,   \* LocaleSpec: how many plugins the first loop of build has done
    buildError  \* LocaleSpec: the error that ended build, if any

callVars == <<calls, net, sent, signals, handled, stream, thrown>>
errorVars == <<errArg, respArg, errOut>>
localeVars == <<plugins, localePack, position, buildError>>
vars == <<callVars, errorVars, provider, localeVars>>

\* ------------------------------------------------------------------ bounds

\* The largest number of chunks the remote sends on one binary stream.
MaxChunks == 2

\* The call slots: two calls of the provider can be under way at once.
Calls == {"call1", "call2"}

\* ------------------------------------------------------------------ values

Null == [js |-> "null"]
Undefined == [js |-> "undefined"]
Str(s) == [js |-> "string", value |-> s]

\* obj.field in JavaScript: undefined when the object has no such property.
Get(obj, field) == IF field \in DOMAIN obj THEN obj[field] ELSE Undefined

\* The truthiness of a value in a condition such as `if (resp)`.
Truthy(v) == v.js \notin {"null", "undefined"} /\ v # Str("")

\* What an operator returns in place of a value when the code throws.
Thrown == [js |-> "TypeError"]

\* Transport errors: the request never got a response.
TransportErrors ==
    { [js |-> "Error", code |-> "ECONNRESET"],
      [js |-> "Error", code |-> "ETIMEDOUT"] }

StatusCodes == {200, 400, 500}

InvalidTokenMessage == Str("Error validating access token")
ProviderMessage == Str("Unsupported get request")

\* The bodies a failed response can carry: none at all, a body that is no
\* Graph API error envelope (an HTML page of a gateway, an empty JSON object),
\* the invalid-token error with and without a message, another Graph API
\* error with its message, and an error object that has no message.
ErrorBodies ==
    { Undefined,
      [js |-> "object"],
      [js |-> "object", error |-> [js |-> "object", code |-> 190]],
      [js |-> "object", error |-> [js |-> "object", code |-> 190, message |-> InvalidTokenMessage]],
      [js |-> "object", error |-> [js |-> "object", code |-> 100, message |-> ProviderMessage]],
      [js |-> "object", error |-> [js |-> "object", code |-> 100]] }

Response(status, body) == [js |-> "response", statusCode |-> status, body |-> body]

ErrorResponses == { Response(s, b) : s \in StatusCodes \ {200}, b \in ErrorBodies }

\* ------------------------------------------------------------------ errors

ProviderAuthError == [js |-> "ProviderAuthError"]

ProviderApiError(message, statusCode) ==
    [js |-> "ProviderApiError", message |-> message, statusCode |-> statusCode]

authProvider == "facebook"

\* constructor (options): the instance holds the provider name and the HTTP
\* client, and nothing else.
NewProvider == [authProvider |-> authProvider, client |-> "purest"]

fallbackMessage(resp) ==
    Str("request to " \o provider.authProvider \o " returned " \o ToString(resp.statusCode))

\* A plausible slip: the generic status handling runs before the marker check.
_errorStatusFirst(err, resp) ==
    IF Truthy(resp)
    THEN IF resp.statusCode # 200
         THEN ProviderApiError(fallbackMessage(resp), resp.statusCode)
         ELSE IF Truthy(resp.body) /\ Truthy(Get(resp.body, "error"))
                 /\ Get(Get(resp.body, "error"), "code") = 190
              THEN ProviderAuthError
              ELSE ProviderApiError(fallbackMessage(resp), resp.statusCode)
    ELSE err

\* A plausible slip: a transport error is wrapped instead of passed through.
_errorWrapped(err, resp) ==
    IF Truthy(resp)
    THEN ProviderApiError(fallbackMessage(resp), resp.statusCode)
    ELSE ProviderApiError(Str("request failed"), 0)

\* _error (err, resp): resp.body.error.code is read whenever resp.body is
\* truthy, so a body without an error object makes the read throw.
_error(err, resp) ==
    IF Truthy(resp)
    THEN IF Truthy(resp.body) /\ ~Truthy(Get(resp.body, "error"))
         THEN Thrown
         ELSE IF Truthy(resp.body) /\ Get(Get(resp.body, "error"), "code") = 190
              THEN ProviderAuthError
              ELSE ProviderApiError(
                       IF Truthy(resp.body) /\ Truthy(Get(resp.body, "error"))
                       THEN Get(Get(resp.body, "error"), "message")
                       ELSE fallbackMessage(resp),
                       resp.statusCode)
    ELSE err

\* ------------------------------------------------------------------ adapter

\* adapter.sortImages: ascending by width, stable (insertion of each image
\* after every earlier image that is not wider).
RECURSIVE sortImages(_)
sortImages(images) ==
    IF Len(images) = 0 THEN <<>>
    ELSE LET last == images[Len(images)]
             rest == sortImages(SubSeq(images, 1, Len(images) - 1))
             k == Cardinality({ i \in 1..Len(rest) : rest[i].width <= last.width })
         IN  SubSeq(rest, 1, k) \o <<last>> \o SubSeq(rest, k + 1, Len(rest))

\* adapter.getItemSubList: the items of the envelope.
getItemSubList(res) == Get(res, "data")

\* adapter.getNextPagePath: the cursor of the next page, null on the last page.
getNextPagePath(res, currentQuery, directory) ==
    IF Truthy(Get(res, "paging")) THEN Get(res, "paging").after ELSE Null

\* The canonical item adaptData pushes for one raw item.
adaptItem(item) ==
    [ isFolder |-> Truthy(Get(item, "type")),
      name |-> Get(item, "name"),
      size |-> Null,
      id |-> Get(item, "id") ]

\* adaptData (res, username, directory, currentQuery)
adaptData(res, username, directory, currentQuery) ==
    LET items == getItemSubList(res)
    IN  [ js |-> "ListResult",
          username |-> username,
          items |-> [ i \in 1..Len(items) |-> adaptItem(items[i]) ],
          nextPagePath |-> getNextPagePath(res, currentQuery, directory) ]

\* A plausible slip: the first of the sorted images is taken, the smallest.
_getMediaUrlFirst(body) ==
    IF ~Truthy(Get(body, "images")) THEN Thrown
    ELSE LET sortedImages == sortImages(Get(body, "images").elements)
         IN  IF Len(sortedImages) = 0 THEN Thrown
             ELSE sortedImages[1].source

\* _getMediaUrl (body): the source of the last of the sorted images; reading
\* .source of undefined throws when there is no image.
_getMediaUrl(body) ==
    IF ~Truthy(Get(body, "images")) THEN Thrown
    ELSE LET sortedImages == sortImages(Get(body, "images").elements)
         IN  IF Len(sortedImages) = 0 THEN Thrown
             ELSE sortedImages[Len(sortedImages)].source

\* ------------------------------------------------------------------ remote side

Directories == { Null, Str("album1") }
Cursors == { Null, Str("c1") }
Tokens == { Str("token1") }
ItemIds == { Str("photo1") }

Album(id) == [js |-> "object", id |-> Str(id), name |-> Str(id), type |-> Str("album")]

\* The bodies of a successful listing: a page that has a successor, and the
\* last page.
FirstPage ==
    [js |-> "object", data |-> <<Album("a1"), Album("a2")>>,
     paging |-> [js |-> "object", after |-> Str("c1")]]

LastPage == [js |-> "object", data |-> <<Album("a3")>>]

ListingBodies == { FirstPage, LastPage }

\* A remote with fixed pages: the page it returns for a continuation parameter.
FixturePage(after) == IF after = Str("c1") THEN LastPage ELSE FirstPage

\* The bodies of a successful identity lookup.
IdentityBodies ==
    { [js |-> "object", email |-> Str("user@example.com")],
      [js |-> "object", email |-> Str("other@example.com")] }

Image(width, source) == [js |-> "object", width |-> width, source |-> Str(source)]
Images(seq) == [js |-> "array", elements |-> seq]

\* The bodies of a successful metadata fetch: images in either order, a
\* single image, an empty list, and no images field at all.
MetadataBodies ==
    { [js |-> "object", images |-> Images(<<Image(130, "small.jpg"), Image(960, "large.jpg")>>)],
      [js |-> "object", images |-> Images(<<Image(960, "large.jpg"), Image(130, "small.jpg")>>)],
      [js |-> "object", images |-> Images(<<Image(130, "small.jpg")>>)],
      [js |-> "object", images |-> Images(<<>>)],
      [js |-> "object"] }

\* What the content-length probe resolves with.
ProbeSizes == { [js |-> "number", value |-> 2048] }

\* The (err, resp) pairs with which the HTTP client calls back on a failure:
\* a transport error and no response, or a response that is not a 200.
FailureOutcomes ==
    { <<e, Undefined>> : e \in TransportErrors } \cup { <<Null, r>> : r \in ErrorResponses }

SuccessOutcomes(bodies) == { <<Null, Response(200, b)>> : b \in bodies }

\* `err || resp.statusCode !== 200`
Failed(err, resp) == Truthy(err) \/ resp.statusCode # 200

\* ------------------------------------------------------------------ state

NoCall == [op |-> "none"]
NoStream == [phase |-> "none"]

\* The stream request just made: no response yet, no chunk read, no 'data'
\* handler attached, and the caller still listening.
OpenedStream ==
    [phase |-> "opening", emitted |-> 0, forward |-> FALSE, abandoned |-> FALSE, atAbandon |-> 0]
NothingHandled == <<>>

Signal(err, data) == [err |-> err, data |-> data]
Chunk(k) == [js |-> "chunk", seq |-> k]

Idle(c) == calls[c].op = "none"

Init ==
    /\ calls = [c \in Calls |-> NoCall]
    /\ net = [c \in Calls |-> {}]
    /\ sent = [c \in Calls |-> <<>>]
    /\ signals = [c \in Calls |-> <<>>]
    /\ handled = [c \in Calls |-> NothingHandled]
    /\ stream = [c \in Calls |-> NoStream]
    /\ thrown = [c \in Calls |-> FALSE]
    /\ errArg = Null
    /\ respArg = Undefined
    /\ errOut = Undefined
    /\ provider = NewProvider
    /\ plugins = <<>>
    /\ localePack = <<>>
    /\ position = 0
    /\ buildError = ""

\* What a callback does when it has computed the value to pass on: it calls
\* the caller's callback, unless computing the value threw.
Pass(c, value, signal) ==
    IF value = Thrown
    THEN /\ thrown' = [thrown EXCEPT ![c] = TRUE]
         /\ signals' = signals
    ELSE /\ signals' = [signals EXCEPT ![c] = Append(@, signal)]
         /\ thrown' = thrown

Issue(c, request) ==
    /\ sent' = [sent EXCEPT ![c] = Append(@, request)]
    /\ net' = [net EXCEPT ![c] = @ \cup {request.kind}]

Receive(c, kind, err, resp) ==
    /\ kind \in net[c]
    /\ handled' = [handled EXCEPT ![c] = Append(@, [kind |-> kind, err |-> err, resp |-> resp])]

\* ------------------------------------------------------------------ list

\* A plausible slip: the cursor never reaches the query string.
ListingRequestNoCursor(directory, token, query) ==
    [ kind |-> "listing",
      url |-> "https://graph.facebook.com/"
                \o (IF Truthy(directory) THEN directory.value \o "/photos" ELSE "me/albums"),
      fields |-> IF Truthy(directory) THEN "icon,images,name,width,height,created_time"
                 ELSE "name,cover_photo,created_time,type",
      after |-> Undefined,
      token |-> token ]

ListingRequest(directory, token, query) ==
    [ kind |-> "listing",
      url |-> "https://graph.facebook.com/"
                \o (IF Truthy(directory) THEN directory.value \o "/photos" ELSE "me/albums"),
      fields |-> IF Truthy(directory) THEN "icon,images,name,width,height,created_time"
                 ELSE "name,cover_photo,created_time,type",
      after |-> IF Truthy(query.cursor) THEN query.cursor ELSE Undefined,
      token |-> token ]

IdentityRequest(token) ==
    [ kind |-> "identity", url |-> "me", fields |-> "email", after |-> Undefined, token |-> token ]

\* list ({ directory, token, query }, done): lines 27-45, up to .request(...)
ListCall(c, directory, token, cursor) ==
    /\ Idle(c)
    /\ calls' = [calls EXCEPT ![c] =
                   [op |-> "list", directory |-> directory, token |-> token,
                    query |-> [cursor |-> cursor], body |-> Undefined]]
    /\ Issue(c, ListingRequest(directory, token, [cursor |-> cursor]))
    /\ UNCHANGED <<signals, handled, stream, thrown, errorVars, localeVars, provider>>

\* A plausible slip: the identity lookup is started whatever the listing returned.
ListingResponseAlways(c, err, resp) ==
    /\ calls[c].op = "list"
    /\ Receive(c, "listing", err, resp)
    /\ IF Failed(err, resp)
       THEN /\ Pass(c, _error(err, resp), Signal(_error(err, resp), Undefined))
            /\ calls' = calls
       ELSE /\ calls' = [calls EXCEPT ![c].body = resp.body]
            /\ UNCHANGED <<signals, thrown>>
    /\ sent' = [sent EXCEPT ![c] = Append(@, IdentityRequest(calls[c].token))]
    /\ net' = [net EXCEPT ![c] = (@ \ {"listing"}) \cup {"identity"}]
    /\ UNCHANGED <<stream, errorVars, localeVars, provider>>

\* The callback of the listing request: lines 46-52.
ListingResponse(c, err, resp) ==
    /\ calls[c].op = "list"
    /\ Receive(c, "listing", err, resp)
    /\ IF Failed(err, resp)
       THEN /\ Pass(c, _error(err, resp), Signal(_error(err, resp), Undefined))
            /\ net' = [net EXCEPT ![c] = @ \ {"listing"}]
            /\ UNCHANGED <<calls, sent>>
       ELSE /\ calls' = [calls EXCEPT ![c].body = resp.body]
            /\ sent' = [sent EXCEPT ![c] = Append(@, IdentityRequest(calls[c].token))]
            /\ net' = [net EXCEPT ![c] = (@ \ {"listing"}) \cup {"identity"}]
            /\ UNCHANGED <<signals, thrown>>
    /\ UNCHANGED <<stream, errorVars, localeVars, provider>>

\* A plausible slip: the listing body is kept on the instance, where the
\* listing callback of another call overwrites it.
UsernameResponseShared(c, err, resp) ==
    /\ calls[c].op = "list"
    /\ Receive(c, "identity", err, resp)
    /\ net' = [net EXCEPT ![c] = @ \ {"identity"}]
    /\ IF Failed(err, resp)
       THEN Pass(c, _error(err, resp), Signal(_error(err, resp), Undefined))
       ELSE LET others == { d \in Calls \ {c} : calls[d].op = "list" /\ Truthy(calls[d].body) }
                body == IF others = {} THEN calls[c].body ELSE calls[CHOOSE d \in others : TRUE].body
                result == adaptData(body, Get(resp.body, "email"),
                                    calls[c].directory, calls[c].query)
            IN  Pass(c, result, Signal(Null, result))
    /\ UNCHANGED <<calls, sent, stream, errorVars, localeVars, provider>>

\* The callback of the identity request, and the callback list gave to
\* _getUsername: lines 67-74 and 52-58.
UsernameResponse(c, err, resp) ==
    /\ calls[c].op = "list"
    /\ Receive(c, "identity", err, resp)
    /\ net' = [net EXCEPT ![c] = @ \ {"identity"}]
    /\ IF Failed(err, resp)
       THEN Pass(c, _error(err, resp), Signal(_error(err, resp), Undefined))
       ELSE LET result == adaptData(calls[c].body, Get(resp.body, "email"),
                                    calls[c].directory, calls[c].query)
            IN  Pass(c, result, Signal(Null, result))
    /\ UNCHANGED <<calls, sent, stream, errorVars, localeVars, provider>>

\* ------------------------------------------------------------------ download

MetadataRequest(id, token) ==
    [ kind |-> "metadata", url |-> "https://graph.facebook.com/" \o id.value,
      fields |-> "images", after |-> Undefined, token |-> token ]

StreamRequest(url) ==
    [ kind |-> "stream", url |-> url.value, fields |-> "", after |-> Undefined, token |-> Undefined ]

\* download ({ id, token }, onData): lines 82-87, up to .request(...)
DownloadCall(c, id, token) ==
    /\ Idle(c)
    /\ calls' = [calls EXCEPT ![c] = [op |-> "download", id |-> id, token |-> token]]
    /\ Issue(c, MetadataRequest(id, token))
    /\ UNCHANGED <<signals, handled, stream, thrown, errorVars, localeVars, provider>>

\* The callback of the metadata request of download: lines 87-95.  The
\* request for the media URL is made here; its events are the Stream actions.
DownloadMetadataResponse(c, err, resp) ==
    /\ calls[c].op = "download"
    /\ Receive(c, "metadata", err, resp)
    /\ IF Failed(err, resp)
       THEN /\ Pass(c, _error(err, resp), Signal(_error(err, resp), Undefined))
            /\ net' = [net EXCEPT ![c] = @ \ {"metadata"}]
            /\ UNCHANGED <<sent, stream>>
       ELSE IF _getMediaUrl(resp.body) = Thrown
            THEN /\ thrown' = [thrown EXCEPT ![c] = TRUE]
                 /\ net' = [net EXCEPT ![c] = @ \ {"metadata"}]
                 /\ UNCHANGED <<signals, sent, stream>>
            ELSE /\ sent' = [sent EXCEPT ![c] = Append(@, StreamRequest(_getMediaUrl(resp.body)))]
                 /\ net' = [net EXCEPT ![c] = (@ \ {"metadata"}) \cup {"stream"}]
                 /\ stream' = [stream EXCEPT ![c] = OpenedStream]
                 /\ UNCHANGED <<signals, thrown>>
    /\ UNCHANGED <<calls, errorVars, localeVars, provider>>

\* A plausible slip: the data handler is registered whatever the status.
StreamResponseForwardAll(c, status) ==
    /\ calls[c].op = "download"
    /\ stream[c].phase = "opening"
    /\ Receive(c, "stream", Null, Response(status, Undefined))
    /\ stream' = [stream EXCEPT ![c].phase = "open", ![c].forward = TRUE]
    /\ IF status # 200
       THEN Pass(c, _error(Null, Response(status, Undefined)),
                 Signal(_error(Null, Response(status, Undefined)), Undefined))
       ELSE UNCHANGED <<signals, thrown>>
    /\ UNCHANGED <<calls, net, sent, errorVars, localeVars, provider>>

\* The 'response' event of the stream: lines 96-102.  The response has no
\* body yet when the event fires.
StreamResponse(c, status) ==
    /\ calls[c].op = "download"
    /\ stream[c].phase = "opening"
    /\ Receive(c, "stream", Null, Response(status, Undefined))
    /\ IF status # 200
       THEN /\ Pass(c, _error(Null, Response(status, Undefined)),
                    Signal(_error(Null, Response(status, Undefined)), Undefined))
            /\ stream' = [stream EXCEPT ![c].phase = "open"]
       ELSE /\ stream' = [stream EXCEPT ![c].phase = "open", ![c].forward = TRUE]
            /\ UNCHANGED <<signals, thrown>>
    /\ UNCHANGED <<calls, net, sent, errorVars, localeVars, provider>>

\* A plausible slip: the first chunk is lost, the handler being attached late.
StreamDataLate(c) ==
    /\ calls[c].op = "download"
    /\ stream[c].phase = "open"
    /\ stream[c].emitted < MaxChunks
    /\ stream' = [stream EXCEPT ![c].emitted = @ + 1]
    /\ signals' = IF stream[c].forward /\ stream[c].emitted >= 1
                  THEN [signals EXCEPT ![c] = Append(@, Signal(Null, Chunk(stream[c].emitted + 1)))]
                  ELSE signals
    /\ UNCHANGED <<calls, net, sent, handled, thrown, errorVars, localeVars, provider>>

\* The remote sends a chunk; the 'data' handler of line 100 forwards it when
\* it was registered.
StreamData(c) ==
    /\ calls[c].op = "download"
    /\ stream[c].phase = "open"
    /\ stream[c].emitted < MaxChunks
    /\ stream' = [stream EXCEPT ![c].emitted = @ + 1]
    /\ signals' = IF stream[c].forward
                  THEN [signals EXCEPT ![c] = Append(@, Signal(Null, Chunk(stream[c].emitted + 1)))]
                  ELSE signals
    /\ UNCHANGED <<calls, net, sent, handled, thrown, errorVars, localeVars, provider>>

\* The 'end' event of the stream: line 103.
StreamEnd(c) ==
    /\ calls[c].op = "download"
    /\ stream[c].phase = "open"
    /\ stream' = [stream EXCEPT ![c].phase = "ended"]
    /\ net' = [net EXCEPT ![c] = @ \ {"stream"}]
    /\ signals' = [signals EXCEPT ![c] = Append(@, Signal(Null, Null))]
    /\ UNCHANGED <<calls, sent, handled, thrown, errorVars, localeVars, provider>>

\* The 'error' event of the stream: lines 104-107.
StreamError(c, err) ==
    /\ calls[c].op = "download"
    /\ stream[c].phase \in {"opening", "open"}
    /\ Receive(c, "stream", err, Undefined)
    /\ stream' = [stream EXCEPT ![c].phase = "failed"]
    /\ net' = [net EXCEPT ![c] = @ \ {"stream"}]
    /\ signals' = [signals EXCEPT ![c] = Append(@, Signal(err, Undefined))]
    /\ UNCHANGED <<calls, sent, thrown, errorVars, localeVars, provider>>

\* The caller gives up a download whose stream is being forwarded.  download hands the
\* caller no handle on the stream and registers no handler for this, so no
\* code of the provider runs: the stream stays as it is.  Only the number of
\* chunks read so far is noted, for the properties.
Abandon(c) ==
    /\ calls[c].op = "download"
    /\ stream[c].phase = "open"
    /\ stream[c].forward
    /\ ~stream[c].abandoned
    /\ stream' = [stream EXCEPT ![c].abandoned = TRUE, ![c].atAbandon = stream[c].emitted]
    /\ UNCHANGED <<calls, net, sent, signals, handled, thrown, errorVars, localeVars, provider>>

\* ------------------------------------------------------------------ thumbnail

NotImplemented == [js |-> "Error", code |-> "call to thumbnail is not implemented"]

\* A plausible slip: the thumbnail is asked of the remote before the error is reported.
ThumbnailCallFetching(c) ==
    /\ Idle(c)
    /\ calls' = [calls EXCEPT ![c] = [op |-> "thumbnail"]]
    /\ sent' = [sent EXCEPT ![c] = Append(@, [kind |-> "thumbnail", url |-> "picture", fields |-> "",
                                             after |-> Undefined, token |-> Undefined])]
    /\ signals' = [signals EXCEPT ![c] = Append(@, Signal(NotImplemented, Undefined))]
    /\ UNCHANGED <<net, handled, stream, thrown, errorVars, localeVars, provider>>

\* thumbnail (_, done): lines 111-116
ThumbnailCall(c) ==
    /\ Idle(c)
    /\ calls' = [calls EXCEPT ![c] = [op |-> "thumbnail"]]
    /\ signals' = [signals EXCEPT ![c] = Append(@, Signal(NotImplemented, Undefined))]
    /\ UNCHANGED <<net, sent, handled, stream, thrown, errorVars, localeVars, provider>>

\* ------------------------------------------------------------------ size

ProbeRequest(url) ==
    [ kind |-> "probe", url |-> url.value, fields |-> "", after |-> Undefined, token |-> Undefined ]

\* size ({ id, token }, done): lines 118-123, up to .request(...)
SizeCall(c, id, token) ==
    /\ Idle(c)
    /\ calls' = [calls EXCEPT ![c] = [op |-> "size", id |-> id, token |-> token]]
    /\ Issue(c, MetadataRequest(id, token))
    /\ UNCHANGED <<signals, handled, stream, thrown, errorVars, localeVars, provider>>

\* The callback of the metadata request of size: lines 123-130.
SizeMetadataResponse(c, err, resp) ==
    /\ calls[c].op = "size"
    /\ Receive(c, "metadata", err, resp)
    /\ IF Failed(err, resp)
       THEN /\ Pass(c, _error(err, resp), Signal(_error(err, resp), Undefined))
            /\ net' = [net EXCEPT ![c] = @ \ {"metadata"}]
            /\ sent' = sent
       ELSE IF _getMediaUrl(resp.body) = Thrown
            THEN /\ thrown' = [thrown EXCEPT ![c] = TRUE]
                 /\ net' = [net EXCEPT ![c] = @ \ {"metadata"}]
                 /\ UNCHANGED <<signals, sent>>
            ELSE /\ sent' = [sent EXCEPT ![c] = Append(@, ProbeRequest(_getMediaUrl(resp.body)))]
                 /\ net' = [net EXCEPT ![c] = (@ \ {"metadata"}) \cup {"probe"}]
                 /\ UNCHANGED <<signals, thrown>>
    /\ UNCHANGED <<calls, stream, errorVars, localeVars, provider>>

\* getURLMeta resolved: line 131.
ProbeResolved(c, size) ==
    /\ calls[c].op = "size"
    /\ "probe" \in net[c]
    /\ net' = [net EXCEPT ![c] = @ \ {"probe"}]
    /\ signals' = [signals EXCEPT ![c] = Append(@, Signal(Null, size))]
    /\ UNCHANGED <<calls, sent, handled, stream, thrown, errorVars, localeVars, provider>>

\* A plausible slip: the error of the probe is passed to the caller.
ProbeRejectedLoud(c, err) ==
    /\ calls[c].op = "size"
    /\ Receive(c, "probe", err, Undefined)
    /\ net' = [net EXCEPT ![c] = @ \ {"probe"}]
    /\ signals' = [signals EXCEPT ![c] = Append(@, Signal(err, Undefined))]
    /\ UNCHANGED <<calls, sent, stream, thrown, errorVars, localeVars, provider>>

\* getURLMeta rejected: lines 132-135, done() with no argument.
ProbeRejected(c, err) ==
    /\ calls[c].op = "size"
    /\ Receive(c, "probe", err, Undefined)
    /\ net' = [net EXCEPT ![c] = @ \ {"probe"}]
    /\ signals' = [signals EXCEPT ![c] = Append(@, Signal(Undefined, Undefined))]
    /\ UNCHANGED <<calls, sent, stream, thrown, errorVars, localeVars, provider>>

\* ------------------------------------------------------------------ logout

RevokeRequest(token) ==
    [ kind |-> "revoke", url |-> "me/permissions", fields |-> "", after |-> Undefined, token |-> token ]

RevokeBodies == { [js |-> "object", success |-> TRUE] }

Revoked == [js |-> "object", revoked |-> TRUE]

\* logout ({ token }, done): lines 139-143, up to .request(...)
LogoutCall(c, token) ==
    /\ Idle(c)
    /\ calls' = [calls EXCEPT ![c] = [op |-> "logout", token |-> token]]
    /\ Issue(c, RevokeRequest(token))
    /\ UNCHANGED <<signals, handled, stream, thrown, errorVars, localeVars, provider>>

\* The callback of the revoke request: lines 143-150.
RevokeResponse(c, err, resp) ==
    /\ calls[c].op = "logout"
    /\ Receive(c, "revoke", err, resp)
    /\ net' = [net EXCEPT ![c] = @ \ {"revoke"}]
    /\ IF Failed(err, resp)
       THEN Pass(c, _error(err, resp), Signal(_error(err, resp), Undefined))
       ELSE Pass(c, Revoked, Signal(Null, Revoked))
    /\ UNCHANGED <<calls, sent, stream, errorVars, localeVars, provider>>

\* ------------------------------------------------------------------ specification

Next ==
    \E c \in Calls :
        \/ \E d \in Directories, t \in Tokens, q \in Cursors : ListCall(c, d, t, q)
        \/ \E o \in FailureOutcomes \cup SuccessOutcomes(ListingBodies) :
               ListingResponse(c, o[1], o[2])
        \/ \E o \in FailureOutcomes \cup SuccessOutcomes(IdentityBodies) :
               UsernameResponse(c, o[1], o[2])
        \/ \E i \in ItemIds, t \in Tokens : DownloadCall(c, i, t)
        \/ \E o \in FailureOutcomes \cup SuccessOutcomes(MetadataBodies) :
               DownloadMetadataResponse(c, o[1], o[2])
        \/ \E s \in StatusCodes : StreamResponse(c, s)
        \/ StreamData(c)
        \/ StreamEnd(c)
        \/ \E e \in TransportErrors : StreamError(c, e)
        \/ Abandon(c)
        \/ ThumbnailCall(c)
        \/ \E i \in ItemIds, t \in Tokens : SizeCall(c, i, t)
        \/ \E o \in FailureOutcomes \cup SuccessOutcomes(MetadataBodies) :
               SizeMetadataResponse(c, o[1], o[2])
        \/ \E n \in ProbeSizes : ProbeResolved(c, n)
        \/ \E e \in TransportErrors : ProbeRejected(c, e)
        \/ \E t \in Tokens : LogoutCall(c, t)
        \/ \E o \in FailureOutcomes \cup SuccessOutcomes(RevokeBodies) :
               RevokeResponse(c, o[1], o[2])

Spec == Init /\ [][Next]_vars

\* The classifier on its own: every pair (transport error or null, response
\* or null or undefined), then one application of _error.
Pending == [js |-> "pending"]

ErrorInit ==
    /\ calls = [c \in Calls |-> NoCall]
    /\ net = [c \in Calls |-> {}]
    /\ sent = [c \in Calls |-> <<>>]
    /\ signals = [c \in Calls |-> <<>>]
    /\ handled = [c \in Calls |-> NothingHandled]
    /\ stream = [c \in Calls |-> NoStream]
    /\ thrown = [c \in Calls |-> FALSE]
    /\ errArg \in {Null} \cup TransportErrors
    /\ respArg \in {Undefined, Null} \cup { Response(s, b) : s \in StatusCodes, b \in ErrorBodies }
    /\ errOut = Pending
    /\ provider = NewProvider
    /\ plugins = <<>>
    /\ localePack = <<>>
    /\ position = 0
    /\ buildError = ""

Classify ==
    /\ errOut = Pending
    /\ errOut' = _error(errArg, respArg)
    /\ UNCHANGED <<errArg, respArg, callVars, localeVars, provider>>

ErrorNext == Classify

ErrorSpec == ErrorInit /\ [][ErrorNext]_vars

\* ------------------------------------------------------------------ locale packs
\* bin/locale-packs.js: build collects the plugins that have a defaultLocale
\* and merges their strings into one locale pack.

\* The largest number of plugins build finds.
MaxPlugins == 2

\* The keys of locale strings.  They are names of messages; none of them is
\* the name of a property every object inherits.
LocaleKeys == { "cancel", "done" }

\* A plural string: an object with one form per index.
Plural(forms) == [js |-> "object", forms |-> forms]

\* The values of locale strings: plain strings and plural objects, one of
\* them with a form that is undefined.
LocaleValues ==
    { Str("Cancel"), Str("Abort"),
      Plural(<<Str("file")>>), Plural(<<Str("file"), Undefined>>) }

\* JSON.stringify of the forms of a plural object from index i on; a form
\* that is undefined is left out.
RECURSIVE stringifyForms(_, _, _)
stringifyForms(forms, i, first) ==
    IF i > Len(forms) THEN ""
    ELSE IF forms[i] = Undefined THEN stringifyForms(forms, i + 1, first)
    ELSE (IF first THEN "" ELSE ",")
             \o "\"" \o ToString(i - 1) \o "\":\"" \o forms[i].value \o "\""
             \o stringifyForms(forms, i + 1, FALSE)

\* JSON.stringify (value): undefined for undefined, the quoted string for a
\* string, the braces around the forms for a plural object.
JSONstringify(value) ==
    IF value = Undefined THEN Undefined
    ELSE IF value.js = "string" THEN Str("\"" \o value.value \o "\"")
    ELSE Str("{" \o stringifyForms(value.forms, 1, TRUE) \o "}")

\* defaultLocale.strings of a plugin: its keys in insertion order, each once.
LocaleStrings ==
    { <<>> }
    \cup { << [key |-> k, value |-> v] >> : k \in LocaleKeys, v \in LocaleValues }
    \cup UNION { { << [key |-> k1, value |-> v1], [key |-> k2, value |-> v2] >> :
                      k2 \in LocaleKeys \ {k1}, v1 \in LocaleValues, v2 \in LocaleValues } :
                    k1 \in LocaleKeys }

\* The lists of plugins build can find.
PluginLists ==
    UNION { [ 1..n -> { [defaultLocale |-> [strings |-> s]] : s \in LocaleStrings } ] : n \in 1..MaxPlugins }

\* localePack[key], undefined when the pack has no such key.
PackValue(pack, key) == IF key \in DOMAIN pack THEN pack[key] ELSE Undefined

\* localePack[key] = value
PackPut(pack, key, value) ==
    [ k \in (DOMAIN pack) \cup {key} |-> IF k = key THEN value ELSE pack[k] ]

DuplicateKeyError(key) == "Duplicate locale key: '" \o key \o "'"

\* A plausible slip: a key the pack already has keeps its first value and
\* nothing is reported.
RECURSIVE addLocaleToPackFirstWins(_, _, _)
addLocaleToPackFirstWins(pack, localeStrings, i) ==
    IF i > Len(localeStrings) THEN [pack |-> pack, error |-> ""]
    ELSE LET key == localeStrings[i].key
         IN  IF key \in DOMAIN pack
             THEN addLocaleToPackFirstWins(pack, localeStrings, i + 1)
             ELSE addLocaleToPackFirstWins(PackPut(pack, key, localeStrings[i].value),
                                           localeStrings, i + 1)

\* addLocaleToPack (localePack, plugin, pluginName), from the i-th key of the
\* plugin on: the pack as it is left, and the message of the error thrown.
RECURSIVE addLocaleToPack(_, _, _)
addLocaleToPack(pack, localeStrings, i) ==
    IF i > Len(localeStrings) THEN [pack |-> pack, error |-> ""]
    ELSE LET key == localeStrings[i].key
             valueInPlugin == JSONstringify(localeStrings[i].value)
             valueInPack == JSONstringify(PackValue(pack, key))
         IN  IF key \in DOMAIN pack /\ valueInPlugin # valueInPack
             THEN [pack |-> pack, error |-> DuplicateKeyError(key)]
             ELSE addLocaleToPack(PackPut(pack, key, localeStrings[i].value),
                                  localeStrings, i + 1)

\* build (), lines 175-176: an empty pack and the list of plugins.
LocaleInit ==
    /\ calls = [c \in Calls |-> NoCall]
    /\ net = [c \in Calls |-> {}]
    /\ sent = [c \in Calls |-> <<>>]
    /\ signals = [c \in Calls |-> <<>>]
    /\ handled = [c \in Calls |-> NothingHandled]
    /\ stream = [c \in Calls |-> NoStream]
    /\ thrown = [c \in Calls |-> FALSE]
    /\ errArg = Null
    /\ respArg = Undefined
    /\ errOut = Undefined
    /\ provider = NewProvider
    /\ plugins \in PluginLists
    /\ localePack = <<>>
    /\ position = 0
    /\ buildError = ""

\* One round of the first loop of build, lines 178-180: addLocaleToPack for
\* the next plugin.  An error it throws ends build.
BuildAddLocale ==
    /\ buildError = ""
    /\ position < Len(plugins)
    /\ LET r == addLocaleToPack(localePack, plugins[position + 1].defaultLocale.strings, 1)
       IN  /\ localePack' = r.pack
           /\ buildError' = r.error
           /\ position' = IF r.error = "" THEN position + 1 ELSE position
    /\ UNCHANGED <<plugins, callVars, errorVars, provider>>

LocaleNext == BuildAddLocale

LocaleSpec == LocaleInit /\ [][LocaleNext]_vars

\* ------------------------------------------------------------------ properties

Last(seq) == seq[Len(seq)]

IsError(sig) == Truthy(sig.err)
IsCompletion(sig) == sig = Signal(Null, Null)
IsChunk(sig) == sig.data.js = "chunk"
IsTerminal(sig) == IsError(sig) \/ IsCompletion(sig)

Issued(c, kind) == \E i \in 1..Len(sent[c]) : sent[c][i].kind = kind

\* The response of a request has been handled and it was a failure.
FailedAt(c, i, kind) ==
    /\ Len(handled[c]) >= i
    /\ handled[c][i].kind = kind
    /\ Failed(handled[c][i].err, handled[c][i].resp)

\* C1: in the onData signals of a download there is no data chunk after an
\* error signal and no error signal after the completion signal, whatever
\* the outcome of the metadata fetch and of the stream.
C1_NoChunkAfterError ==
    \A c \in Calls :
        calls[c].op = "download" =>
            \A i, j \in 1..Len(signals[c]) :
                i < j =>
                    /\ ~(IsError(signals[c][i]) /\ IsChunk(signals[c][j]))
                    /\ ~(IsCompletion(signals[c][i]) /\ IsError(signals[c][j]))

\* A stream answered with a status other than 200, the error was signalled
\* and the remote went on to send a chunk.
C1_Witness ==
    \E c \in Calls :
        /\ calls[c].op = "download"
        /\ stream[c].phase = "open"
        /\ ~stream[c].forward
        /\ stream[c].emitted >= 1
        /\ signals[c] # <<>>
        /\ IsError(signals[c][1])

\* C2: a call has exactly one terminal signal.  Stated here as what a finite
\* run can refute: no call ever has two terminal signals (for download an
\* error or the completion signal, for the other methods an invocation of
\* done), and no invocation carries both an error and a result.
C2_OneTerminalSignal ==
    \A c \in Calls :
        /\ Cardinality({ i \in 1..Len(signals[c]) :
                           calls[c].op = "download" => IsTerminal(signals[c][i]) }) <= 1
        /\ \A i \in 1..Len(signals[c]) :
               ~(Truthy(signals[c][i].err) /\ Truthy(signals[c][i].data))

\* C3: within a list call the identity request is issued only after the
\* listing request returned without error and with status 200, the two are
\* never in flight together, the result is delivered only after the identity
\* request returned, and a failed listing is never followed by an identity
\* request.
C3_IdentityAfterListing ==
    \A c \in Calls :
        calls[c].op = "list" =>
            /\ ~({"listing", "identity"} \subseteq net[c])
            /\ Issued(c, "identity") =>
                   /\ Len(handled[c]) >= 1
                   /\ handled[c][1].kind = "listing"
                   /\ ~Failed(handled[c][1].err, handled[c][1].resp)
                   /\ "listing" \notin net[c]
            /\ FailedAt(c, 1, "listing") => ~Issued(c, "identity")
            /\ (\E i \in 1..Len(signals[c]) : signals[c][i].data.js = "ListResult") =>
                   /\ Len(handled[c]) = 2
                   /\ handled[c][2].kind = "identity"
                   /\ "identity" \notin net[c]

\* A list call has delivered its result.
C3_Witness ==
    \E c \in Calls :
        /\ calls[c].op = "list"
        /\ signals[c] # <<>>
        /\ signals[c][1].data.js = "ListResult"
        /\ Len(sent[c]) = 2

\* C4: when the listing succeeded and the identity request failed, list
\* delivers the error classified from the identity request's error and
\* response, and nothing else.
C4_IdentityFailureDelivered ==
    \A c \in Calls :
        (calls[c].op = "list" /\ FailedAt(c, 2, "identity")) =>
            signals[c] = << Signal(_error(handled[c][2].err, handled[c][2].resp), Undefined) >>

\* C5: within a download the stream request is opened only after the
\* metadata request returned without error and with status 200; when the
\* metadata request failed the stream is never opened and the caller
\* receives the classified error.
C5_MetadataBeforeStream ==
    \A c \in Calls :
        calls[c].op = "download" =>
            /\ Issued(c, "stream") =>
                   /\ Len(handled[c]) >= 1
                   /\ handled[c][1].kind = "metadata"
                   /\ ~Failed(handled[c][1].err, handled[c][1].resp)
            /\ FailedAt(c, 1, "metadata") =>
                   /\ ~Issued(c, "stream")
                   /\ signals[c] =
                        << Signal(_error(handled[c][1].err, handled[c][1].resp), Undefined) >>

\* C6: _error is total: whatever the pair (transport error or null, response
\* or null) it returns a value and does not throw.
C6_ErrorTotal == errOut # Thrown

\* The response body carries the invalid-token marker.
HasMarker(resp) ==
    /\ Truthy(resp)
    /\ Truthy(resp.body)
    /\ Truthy(Get(resp.body, "error"))
    /\ Get(Get(resp.body, "error"), "code") = 190

\* C7: for a response whose body carries the invalid-token marker (error code
\* 190) _error returns an AuthError, whatever the status code and whatever
\* the transport error.
C7_MarkerIsAuthError ==
    (errOut # Pending /\ HasMarker(respArg)) => errOut = ProviderAuthError

\* The marker came with a 400 and with a transport error.
C7_Witness ==
    /\ errOut = ProviderAuthError
    /\ respArg.statusCode = 400
    /\ Truthy(errArg)

\* The provider's own message of a response, when its body has one.
HasProviderMessage(resp) ==
    /\ Truthy(resp.body)
    /\ Truthy(Get(resp.body, "error"))
    /\ Truthy(Get(Get(resp.body, "error"), "message"))

\* C8: for a response with a non-success status and without the marker,
\* _error returns an ApiError with the status code of the response and with
\* the provider's message when the body has one, the fallback message
\* otherwise.
C8_ApiErrorMessage ==
    (errOut # Pending /\ Truthy(respArg) /\ respArg.statusCode # 200 /\ ~HasMarker(respArg)) =>
        errOut = ProviderApiError(
                     IF HasProviderMessage(respArg)
                     THEN respArg.body.error.message
                     ELSE fallbackMessage(respArg),
                     respArg.statusCode)

\* C9: a transport failure with no response reaches the caller as the very
\* error the HTTP client gave: in list, in the identity lookup, in both
\* phases of download, in the metadata phase of size and in logout.
C9_TransportErrorUnchanged ==
    \A c \in Calls :
        ( /\ handled[c] # <<>>
          /\ Last(handled[c]).kind # "probe"
          /\ Truthy(Last(handled[c]).err)
          /\ ~Truthy(Last(handled[c]).resp) ) =>
            /\ signals[c] # <<>>
            /\ Last(signals[c]) = Signal(Last(handled[c]).err, Undefined)

\* The identity lookup of a list call ended in a transport error.
C9_Witness ==
    \E c \in Calls :
        /\ calls[c].op = "list"
        /\ Len(handled[c]) = 2
        /\ handled[c][2].err \in TransportErrors
        /\ signals[c] = << Signal(handled[c][2].err, Undefined) >>

\* C10: when the metadata request of size succeeded and the probe failed,
\* done is invoked once with no error and an unknown size.
C10_ProbeFailureSwallowed ==
    \A c \in Calls :
        ( /\ calls[c].op = "size"
          /\ Len(handled[c]) = 2
          /\ handled[c][2].kind = "probe" ) =>
            /\ Len(signals[c]) = 1
            /\ ~Truthy(signals[c][1].err)
            /\ ~Truthy(signals[c][1].data)

\* The probe of a size call was rejected.
C10_Witness ==
    \E c \in Calls :
        /\ calls[c].op = "size"
        /\ Len(handled[c]) = 2
        /\ handled[c][2].kind = "probe"
        /\ handled[c][2].err \in TransportErrors
        /\ "probe" \notin net[c]

\* C11 as claimed: size never delivers an error to its caller.
C11_SizeNeverDeliversError ==
    \A c \in Calls :
        calls[c].op = "size" =>
            \A i \in 1..Len(signals[c]) : ~IsError(signals[c][i])

\* C11: size delivers an error only when its metadata fetch failed, and then
\* the error classified from that failure; a failure of the probe is never
\* delivered as an error.
C11_SizeErrorOnlyFromMetadata ==
    \A c \in Calls :
        calls[c].op = "size" =>
            /\ \A i \in 1..Len(signals[c]) :
                   IsError(signals[c][i]) =>
                       /\ FailedAt(c, 1, "metadata")
                       /\ signals[c][i].err = _error(handled[c][1].err, handled[c][1].resp)
            /\ (Len(handled[c]) = 2 /\ handled[c][2].kind = "probe") =>
                   \A i \in 1..Len(signals[c]) : ~IsError(signals[c][i])

\* The metadata fetch of a size call was answered with a 400 and the caller
\* got the ApiError.
C11_Witness ==
    \E c \in Calls :
        /\ calls[c].op = "size"
        /\ FailedAt(c, 1, "metadata")
        /\ Len(signals[c]) = 1
        /\ signals[c][1].err.js = "ProviderApiError"
        /\ signals[c][1].err.statusCode = 400

\* C12: thumbnail invokes its callback at once, exactly once, with the 'not
\* implemented' error and no data, and issues no remote request.
C12_ThumbnailNotImplemented ==
    \A c \in Calls :
        calls[c].op = "thumbnail" =>
            /\ signals[c] = << Signal(NotImplemented, Undefined) >>
            /\ sent[c] = <<>>
            /\ net[c] = {}

\* thumbnail has been called.
C12_Witness ==
    \E c \in Calls : calls[c].op = "thumbnail" /\ Len(signals[c]) = 1

\* A list call has delivered a ListResult.
Listed(c) ==
    /\ calls[c].op = "list"
    /\ signals[c] # <<>>
    /\ signals[c][1].data.js = "ListResult"

\* C13: list calls that run concurrently on one instance do not affect each
\* other: each sends the requests built from its own directory, query and
\* token, each delivers the result built from its own listing response and
\* its own identity response, and the instance holds nothing but what the
\* constructor put there.
C13_ConcurrentListsIndependent ==
    /\ provider = NewProvider
    /\ \A c \in Calls :
           calls[c].op = "list" =>
               /\ sent[c][1] = ListingRequest(calls[c].directory, calls[c].token, calls[c].query)
               /\ Len(sent[c]) = 2 => sent[c][2] = IdentityRequest(calls[c].token)
               /\ Listed(c) =>
                      signals[c] =
                          << Signal(Null,
                                    adaptData(handled[c][1].resp.body,
                                              handled[c][2].resp.body.email,
                                              calls[c].directory, calls[c].query)) >>

\* Two list calls with different directories have both delivered, from
\* different listing bodies and different identities.
C13_Witness ==
    \E c, d \in Calls :
        /\ c # d
        /\ Listed(c)
        /\ Listed(d)
        /\ calls[c].directory # calls[d].directory
        /\ handled[c][1].resp.body # handled[d][1].resp.body
        /\ signals[c][1].data.username # signals[d][1].data.username
        /\ signals[c][1].data.items # signals[d][1].data.items

\* The sources of the images of a metadata body that no other image exceeds
\* in width.
WidestSources(body) ==
    LET images == body.images.elements
    IN  { images[i].source.value : i \in { k \in 1..Len(images) :
                                            \A j \in 1..Len(images) : images[j].width <= images[k].width } }

\* The URL a download streams from, or a size call probes, once it is issued.
MediaUrl(c) == sent[c][2].url

HasMediaUrl(c) ==
    /\ calls[c].op \in {"download", "size"}
    /\ Len(sent[c]) = 2

\* C14: the URL download streams from and the URL size probes are the source
\* of the widest image of the metadata body, so for the same body they are
\* the same URL.
C14_SameMediaUrl ==
    /\ \A c \in Calls :
           HasMediaUrl(c) =>
               /\ sent[c][2].kind = (IF calls[c].op = "download" THEN "stream" ELSE "probe")
               /\ MediaUrl(c) \in WidestSources(handled[c][1].resp.body)
               /\ MediaUrl(c) = Last(sortImages(handled[c][1].resp.body.images.elements)).source.value
    /\ \A c, d \in Calls :
           ( /\ HasMediaUrl(c) /\ HasMediaUrl(d)
             /\ handled[c][1].resp.body = handled[d][1].resp.body ) =>
               MediaUrl(c) = MediaUrl(d)

\* A download and a size call got the same body, whose widest image comes
\* first, and both went for that image.
C14_Witness ==
    \E c, d \in Calls :
        /\ calls[c].op = "download" /\ calls[d].op = "size"
        /\ HasMediaUrl(c) /\ HasMediaUrl(d)
        /\ handled[c][1].resp.body = handled[d][1].resp.body
        /\ Len(handled[c][1].resp.body.images.elements) = 2
        /\ handled[c][1].resp.body.images.elements[1].width = 960
        /\ MediaUrl(c) = "large.jpg"
        /\ MediaUrl(d) = "large.jpg"

\* The signals that forward the first n chunks of a stream, in order.
Forwarded(n) == [ k \in 1..n |-> Signal(Null, Chunk(k)) ]

\* C15: while a stream answered with status 200 is read, the caller has
\* received exactly the chunks the remote has sent so far, each once and in
\* the order sent; the completion signal comes once, after the last chunk,
\* when the stream ends.
C15_ChunksForwardedInOrder ==
    \A c \in Calls :
        (calls[c].op = "download" /\ stream[c].phase # "none" /\ stream[c].forward) =>
            signals[c] =
                Forwarded(stream[c].emitted)
                    \o (IF stream[c].phase = "ended" THEN << Signal(Null, Null) >>
                        ELSE IF stream[c].phase = "failed"
                             THEN << Signal(Last(handled[c]).err, Undefined) >>
                             ELSE << >>)

\* A stream of two chunks or more has ended.
C15_Witness ==
    \E c \in Calls :
        /\ calls[c].op = "download"
        /\ stream[c].phase = "ended"
        /\ stream[c].forward
        /\ stream[c].emitted >= 2
        /\ Len(signals[c]) = stream[c].emitted + 1

\* C16: logout delivers { revoked: true } whenever the revoke request returns
\* without transport error and with status 200, whatever other logout calls
\* did with the token before; in every other case it delivers the classified
\* error and no result.
C16_LogoutRevokedOrError ==
    \A c \in Calls :
        (calls[c].op = "logout" /\ handled[c] # <<>>) =>
            signals[c] =
                IF Failed(handled[c][1].err, handled[c][1].resp)
                THEN << Signal(_error(handled[c][1].err, handled[c][1].resp), Undefined) >>
                ELSE << Signal(Null, Revoked) >>

\* The remote answered the listing request of a call as the fixture does.
FixtureAnswered(c) ==
    /\ Len(handled[c]) >= 1
    /\ handled[c][1].resp = Response(200, FixturePage(sent[c][1].after))

\* Call d continues the listing of call c: same directory, and its cursor is
\* the nextPagePath call c delivered.
Continues(d, c) ==
    /\ Listed(c)
    /\ calls[d].op = "list"
    /\ calls[d].directory = calls[c].directory
    /\ Truthy(signals[c][1].data.nextPagePath)
    /\ calls[d].query.cursor = signals[c][1].data.nextPagePath

\* C17: paging with cursor = the previous nextPagePath addresses the next
\* page: a call without cursor sends no continuation parameter, a call with
\* a cursor sends it unchanged as `after`, and against the fixture pages a
\* first call and its continuation deliver every item once, in order.
C17_PagingRoundTrip ==
    /\ \A c \in Calls :
           calls[c].op = "list" =>
               sent[c][1].after = (IF Truthy(calls[c].query.cursor)
                                   THEN calls[c].query.cursor ELSE Undefined)
    /\ \A c, d \in Calls :
           Continues(d, c) =>
               /\ sent[d][1].after = signals[c][1].data.nextPagePath
               /\ ( /\ ~Truthy(calls[c].query.cursor)
                    /\ FixtureAnswered(c) /\ FixtureAnswered(d) /\ Listed(d) ) =>
                      /\ signals[c][1].data.items \o signals[d][1].data.items
                           = << adaptItem(Album("a1")), adaptItem(Album("a2")),
                                adaptItem(Album("a3")) >>
                      /\ signals[d][1].data.nextPagePath = Null

\* A first page and its continuation have both been delivered against the
\* fixture.
C17_Witness ==
    \E c, d \in Calls :
        /\ c # d
        /\ Continues(d, c)
        /\ ~Truthy(calls[c].query.cursor)
        /\ FixtureAnswered(c) /\ FixtureAnswered(d)
        /\ Listed(d)
        /\ Len(signals[d][1].data.items) = 1

\* C18: once the caller has abandoned a download whose stream is open, no
\* further chunk is read from the remote and the stream is not drained to
\* its end.
C18_StreamReleasedOnAbandon ==
    \A c \in Calls :
        (calls[c].op = "download" /\ stream[c].phase # "none" /\ stream[c].abandoned) =>
            /\ stream[c].emitted = stream[c].atAbandon
            /\ stream[c].phase # "ended"

\* The caller of a call has its terminal signal: an invocation of done, or
\* for download an error or the completion signal.
Delivered(c) ==
    \E i \in 1..Len(signals[c]) : calls[c].op = "download" => IsTerminal(signals[c][i])

\* C19: a size or download call whose metadata request was answered with
\* status 200 delivers a terminal signal once every remote call it issued
\* has returned, whatever the body, also when its images list is missing or
\* empty.  (With no request of the call in flight no callback of it can run
\* any more, so a call that has not delivered by then never will.)
C19_CallsReachTerminalSignal ==
    \A c \in Calls :
        ( /\ calls[c].op \in {"size", "download"}
          /\ Len(handled[c]) >= 1
          /\ ~Failed(handled[c][1].err, handled[c][1].resp)
          /\ net[c] = {} ) =>
            Delivered(c)

\* Plugin i defines key k; the value it gives it.
DefinesKey(i, k) ==
    \E n \in 1..Len(plugins[i].defaultLocale.strings) :
        plugins[i].defaultLocale.strings[n].key = k

ValueOfKey(i, k) ==
    LET strings == plugins[i].defaultLocale.strings
    IN  strings[CHOOSE n \in 1..Len(strings) : strings[n].key = k].value

\* Plugins j and i, j the earlier, define key k with values whose JSON
\* serializations differ.
Conflict(j, i, k) ==
    /\ j < i
    /\ DefinesKey(j, k)
    /\ DefinesKey(i, k)
    /\ JSONstringify(ValueOfKey(j, k)) # JSONstringify(ValueOfKey(i, k))

LoopDone == position = Len(plugins) /\ buildError = ""

\* C20: when the loop of addLocaleToPack calls has run through, every key of
\* every plugin is in the pack with a value whose JSON serialization is that
\* of the plugin's value; two plugins that give one key different values
\* make addLocaleToPack throw 'Duplicate locale key' no later than at the
\* later of the two, so that plugin is never added; and nothing else makes
\* it throw: a key repeated with an equal value is accepted.
C20_LocalePackComplete ==
    /\ LoopDone =>
           \A i \in 1..Len(plugins), k \in LocaleKeys :
               DefinesKey(i, k) =>
                   /\ k \in DOMAIN localePack
                   /\ JSONstringify(localePack[k]) = JSONstringify(ValueOfKey(i, k))
    /\ \A i \in 1..Len(plugins), j \in 1..Len(plugins), k \in LocaleKeys :
           Conflict(j, i, k) => position < i
    /\ buildError # "" =>
           \E j \in 1..position, k \in LocaleKeys :
               /\ Conflict(j, position + 1, k)
               /\ buildError = DuplicateKeyError(k)

\* The loop has run through two plugins that give one key values that are
\* not the same but serialize the same.
C20_Witness ==
    /\ LoopDone
    /\ Len(plugins) >= 2
    /\ \E k \in LocaleKeys :
           /\ DefinesKey(1, k) /\ DefinesKey(2, k)
           /\ ValueOfKey(1, k) # ValueOfKey(2, k)
           /\ localePack[k] = ValueOfKey(2, k)

====
